---- MODULE Spec2Model ----
(***************************************************************************)
(* A model of the flags type generated by the bitflags! macro              *)
(* (rust-lang/bitflags 2.3.2): the value type and its set algebra, the     *)
(* named-flag iterator, and the text formatter / parser.                   *)
(*                                                                         *)
(* src/lib.rs holds the crate documentation, its doctests (the flag        *)
(* declarations used below) and the __impl_bitflags! macro, which gives    *)
(* every method its signature and forwards to a body block.  The body      *)
(* blocks themselves (public.rs, internal.rs), the iterator (iter.rs) and  *)
(* the parser (parser.rs) are modelled from the specification and the      *)
(* documentation; those definitions carry the prefix impl_, iter_ or       *)
(* parser_.                                                                *)
(***************************************************************************)
EXTENDS Integers, Sequences, FiniteSets, TLC

\* Width of the underlying integer type $T, in bits.
Width == 4

\* The values of $T.
Bits == 0 .. (2 ^ Width - 1)

----------------------------------------------------------------------------
\* Bitwise operators of $T.

\* Bit i of x (0 or 1).
Bit(x, i) == (x \div (2 ^ i)) % 2

RECURSIVE BitAnd(_, _)
BitAnd(x, y) ==
    IF x = 0 \/ y = 0 THEN 0
    ELSE ((x % 2) * (y % 2)) + 2 * BitAnd(x \div 2, y \div 2)

RECURSIVE BitOr(_, _)
BitOr(x, y) ==
    IF x = 0 THEN y
    ELSE IF y = 0 THEN x
    ELSE (IF x % 2 = 1 \/ y % 2 = 1 THEN 1 ELSE 0) + 2 * BitOr(x \div 2, y \div 2)

RECURSIVE BitXor(_, _)
BitXor(x, y) ==
    IF x = 0 THEN y
    ELSE IF y = 0 THEN x
    ELSE ((x + y) % 2) + 2 * BitXor(x \div 2, y \div 2)

\* !x on a Width-bit unsigned integer.
BitNot(x) == (2 ^ Width - 1) - x

----------------------------------------------------------------------------
\* Text is a sequence of one-character strings.

Flag(n, b) == [name |-> n, bits |-> b]

\* struct Flags: u32 { A, B, C, ABC } (crate docs, first example)
FlagsABC_ABC ==
    << Flag(<<"A">>, 1), Flag(<<"B">>, 2), Flag(<<"C">>, 4),
       Flag(<<"A", "B", "C">>, 7) >>

\* struct Flags: u32 { A, B, C } (crate docs, Flags trait example)
FlagsABC == << Flag(<<"A">>, 1), Flag(<<"B">>, 2), Flag(<<"C">>, 4) >>

\* struct Flags: u32 { A, B, C, D } (crate docs, Debug and Display)
FlagsABCD ==
    << Flag(<<"A">>, 1), Flag(<<"B">>, 2), Flag(<<"C">>, 4), Flag(<<"D">>, 8) >>

\* struct Flags: u32 { NONE = 0, SOME = 1 } (crate docs, Zero Flags)
FlagsZero == << Flag(<<"N", "O", "N", "E">>, 0), Flag(<<"S", "O", "M", "E">>, 1) >>

\* struct Flags: u8 { F3 = 0b11 } (crate docs, Multi-bit Flags)
FlagsF3 == << Flag(<<"F", "3">>, 3) >>

\* Declarations with partially overlapping multi-bit flags, and with the
\* composed flag declared before its components.
FlagsOverlap == << Flag(<<"X">>, 3), Flag(<<"Y">>, 6) >>

FlagsABC_First ==
    << Flag(<<"A", "B", "C">>, 7), Flag(<<"A">>, 1), Flag(<<"B">>, 2),
       Flag(<<"C">>, 4) >>

Tables ==
    { FlagsABC_ABC, FlagsABC, FlagsABCD, FlagsZero, FlagsF3, FlagsOverlap,
      FlagsABC_First }

----------------------------------------------------------------------------
VARIABLES
    table,      \* the flag declaration of the generated type
    self,       \* bits of the value the caller owns (the &mut self target)
    pure,       \* bits of a second copy, updated by the pure combinators only
    other,      \* bits of the argument value
    ret,        \* the last call and what it returned
    iter,       \* the named-flag iterator: source, remaining, idx
    yielded,    \* the items the iterator has yielded so far
    text,       \* the formatter's output
    input,      \* the string handed to the parser
    parsed      \* the parser's result

vars == << table, self, pure, other, ret, iter, yielded, text, input, parsed >>

----------------------------------------------------------------------------
\* The methods of the generated type.  __impl_bitflags! gives each method its
\* signature, binds the arguments and evaluates the body block it was handed
\* ($empty, $all, ...); the body blocks are the impl_ definitions.  A flags
\* value is represented by its bits field.

Some(b) == [some |-> TRUE, bits |-> b]
None == [some |-> FALSE, bits |-> 0]

impl_empty == 0

empty == impl_empty

\* The union of the bits of the first n declared flags.
RECURSIVE UnionOfFlags(_)
UnionOfFlags(n) ==
    IF n = 0 THEN 0 ELSE BitOr(UnionOfFlags(n - 1), table[n].bits)

impl_all == UnionOfFlags(Len(table))

all == impl_all

impl_bits(f) == f

bits(f) == impl_bits(f)

\* Each declared flag is taken as a unit: it contributes its bits when all of
\* them are set in x, and nothing otherwise.
RECURSIVE TruncateFlags(_, _)
TruncateFlags(x, n) ==
    IF n = 0 THEN 0
    ELSE LET truncated == TruncateFlags(x, n - 1)
         IN  IF BitAnd(x, table[n].bits) = table[n].bits
             THEN BitOr(truncated, table[n].bits)
             ELSE truncated

impl_from_bits_truncate(x) == TruncateFlags(x, Len(table))

\* A variant that keeps every bit some declared flag has.
from_bits_truncate_masking(x) == BitAnd(x, bits(all))

from_bits_truncate(x) == impl_from_bits_truncate(x)

impl_from_bits_retain(x) == x

\* A variant that keeps only the bits of whole declared flags.
from_bits_retain_truncating(x) == TruncateFlags(x, Len(table))

from_bits_retain(x) == impl_from_bits_retain(x)

impl_from_bits(x) ==
    LET truncated == bits(from_bits_truncate(x))
    IN  IF truncated = x THEN Some(from_bits_retain(x)) ELSE None

\* A variant that accepts every x without a bit outside all().
from_bits_masking(x) ==
    IF BitAnd(x, BitNot(bits(all))) = 0 THEN Some(from_bits_retain(x)) ELSE None

from_bits(x) == impl_from_bits(x)

\* The first declared flag whose name is `name`, character for character.
RECURSIVE LookupName(_, _)
LookupName(name, n) ==
    IF n > Len(table) THEN None
    ELSE IF table[n].name = name THEN Some(table[n].bits)
    ELSE LookupName(name, n + 1)

impl_from_name(name) == LookupName(name, 1)

\* A variant that is satisfied by a declared name at the start of `name`.
from_name_prefix(name) ==
    LET Starts(k) ==
            /\ Len(table[k].name) <= Len(name)
            /\ SubSeq(name, 1, Len(table[k].name)) = table[k].name
    IN  IF \E k \in 1 .. Len(table) : Starts(k)
        THEN Some(table[CHOOSE k \in 1 .. Len(table) : Starts(k)].bits)
        ELSE None

from_name(name) == impl_from_name(name)

impl_is_empty(f) == bits(f) = bits(empty)

is_empty(f) == impl_is_empty(f)

impl_is_all(f) == BitOr(bits(all), bits(f)) = bits(f)

\* A variant that asks for exactly the declared bits.
is_all_exact(f) == bits(f) = bits(all)

is_all(f) == impl_is_all(f)

impl_intersects(f, o) == BitAnd(bits(f), bits(o)) # 0

\* A variant that finds a common bit in any two values.
intersects_always(f, o) == TRUE

intersects(f, o) == impl_intersects(f, o)

impl_contains(f, o) == BitAnd(bits(f), bits(o)) = bits(o)

\* A variant that is satisfied by any common bit.
contains_any(f, o) == BitAnd(bits(f), bits(o)) # 0

\* A variant that never finds the empty value contained.
contains_nonempty(f, o) == bits(o) # 0 /\ BitAnd(bits(f), bits(o)) = bits(o)

contains(f, o) == impl_contains(f, o)

impl_intersection(f, o) == from_bits_retain(BitAnd(bits(f), bits(o)))

\* A variant that drops what from_bits_truncate would drop.
intersection_truncating(f, o) == from_bits_truncate(BitAnd(bits(f), bits(o)))

intersection(f, o) == impl_intersection(f, o)

impl_union(f, o) == from_bits_retain(BitOr(bits(f), bits(o)))

union(f, o) == impl_union(f, o)

impl_difference(f, o) == from_bits_retain(BitAnd(bits(f), BitNot(bits(o))))

difference(f, o) == impl_difference(f, o)

impl_symmetric_difference(f, o) == from_bits_retain(BitXor(bits(f), bits(o)))

symmetric_difference(f, o) == impl_symmetric_difference(f, o)

\* Bitwise negation, with every bit outside all() unset.
impl_complement(f) == from_bits_retain(BitAnd(BitNot(bits(f)), bits(all)))

\* A variant that leaves the negated bits as they are.
complement_unmasked(f) == from_bits_retain(BitNot(bits(f)))

\* A variant that truncates the negated bits flag by flag.
complement_truncating(f) == from_bits_truncate(BitNot(bits(f)))

complement(f) == impl_complement(f)

\* The in-place methods: the value is the new bits of *self.
impl_insert(f, o) == BitOr(bits(f), bits(o))

\* A variant that overwrites instead of adding.
insert_overwriting(f, o) == bits(o)

insert(f, o) == impl_insert(f, o)

impl_remove(f, o) == BitAnd(bits(f), BitNot(bits(o)))

\* A variant that removes nothing.
remove_nothing(f, o) == bits(f)

\* A variant that flips the bits of `o` instead of clearing them.
remove_xor(f, o) == BitXor(bits(f), bits(o))

remove(f, o) == impl_remove(f, o)

impl_toggle(f, o) == BitXor(bits(f), bits(o))

toggle(f, o) == impl_toggle(f, o)

impl_set(f, o, value) == IF value THEN insert(f, o) ELSE remove(f, o)

\* A variant that ignores `value`.
set_always(f, o, value) == insert(f, o)

set(f, o, value) == impl_set(f, o, value)

----------------------------------------------------------------------------
\* The named-flag iterator.  It holds a copy of the value it was made from
\* (source), the bits no yielded flag has covered yet (remaining), and the
\* number of declared flags it has examined (idx).

NoIter == [live |-> FALSE, source |-> 0, remaining |-> 0, idx |-> 0, done |-> FALSE]

iter_names(f) ==
    [live |-> TRUE, source |-> bits(f), remaining |-> bits(f), idx |-> 0,
     done |-> FALSE]

\* One call of next(): examine the declared flags from idx on, in
\* declaration order; yield the first one that is contained in the source and
\* still has a bit among the remaining ones, and take its bits out of them.
NoItem == Flag(<<>>, 0)

RECURSIVE iter_next(_)
iter_next(it) ==
    IF it.idx >= Len(table)
    THEN [some |-> FALSE, item |-> NoItem, it |-> [it EXCEPT !.done = TRUE]]
    ELSE LET flag == table[it.idx + 1]
             it1 == [it EXCEPT !.idx = @ + 1]
         IN  IF contains(it.source, flag.bits) /\ intersects(it.remaining, flag.bits)
             THEN [some |-> TRUE, item |-> flag,
                   it |-> [it1 EXCEPT !.remaining = remove(@, flag.bits)]]
             ELSE iter_next(it1)

\* The bits the iterator has left once it is exhausted or abandoned.
iter_remaining(it) == it.remaining

----------------------------------------------------------------------------
\* The formatter and the parser.

HexLower ==
    << "0", "1", "2", "3", "4", "5", "6", "7", "8", "9", "a", "b", "c", "d", "e", "f" >>

HexUpper ==
    << "0", "1", "2", "3", "4", "5", "6", "7", "8", "9", "A", "B", "C", "D", "E", "F" >>

Whitespace == { " ", "\t" }

\* {:x}: lower-case hexadecimal digits, most significant first, no padding.
RECURSIVE write_hex(_)
write_hex(n) ==
    IF n < 16 THEN << HexLower[n + 1] >>
    ELSE write_hex(n \div 16) \o << HexLower[(n % 16) + 1] >>

\* The value of a hexadecimal digit, or -1.
HexDigit(c) ==
    IF \E d \in 1 .. 16 : HexLower[d] = c
    THEN (CHOOSE d \in 1 .. 16 : HexLower[d] = c) - 1
    ELSE IF \E d \in 1 .. 16 : HexUpper[d] = c
    THEN (CHOOSE d \in 1 .. 16 : HexUpper[d] = c) - 1
    ELSE -1

\* from_str_radix(s, 16) for $T: every character a digit, at least one
\* digit, and the value within the width.
RECURSIVE ParseDigits(_, _, _)
ParseDigits(s, i, acc) ==
    IF i > Len(s) THEN Some(acc)
    ELSE LET d == HexDigit(s[i])
         IN  IF d < 0 THEN None
             ELSE IF acc * 16 + d > 2 ^ Width - 1 THEN None
             ELSE ParseDigits(s, i + 1, acc * 16 + d)

parse_hex(s) == IF Len(s) = 0 THEN None ELSE ParseDigits(s, 1, 0)

\* to_writer: the names of the flags the iterator yields, joined by " | ",
\* then what the iterator has left as one 0x literal.
RECURSIVE WriteNames(_, _)
WriteNames(it, out) ==
    LET n == iter_next(it)
    IN  IF ~n.some THEN [out |-> out, it |-> n.it]
        ELSE WriteNames(n.it,
                        IF out = <<>> THEN n.item.name
                        ELSE out \o << " ", "|", " " >> \o n.item.name)

parser_to_writer(f) ==
    LET w == WriteNames(iter_names(f), <<>>)
        remaining == iter_remaining(w.it)
    IN  IF remaining # 0
        THEN (IF w.out = <<>> THEN <<>> ELSE w.out \o << " ", "|", " " >>)
             \o << "0", "x" >> \o write_hex(remaining)
        ELSE w.out

\* str::trim
RECURSIVE TrimStart(_)
TrimStart(s) ==
    IF s # <<>> /\ Head(s) \in Whitespace THEN TrimStart(Tail(s)) ELSE s

RECURSIVE TrimEnd(_)
TrimEnd(s) ==
    IF s # <<>> /\ s[Len(s)] \in Whitespace
    THEN TrimEnd(SubSeq(s, 1, Len(s) - 1))
    ELSE s

trim(s) == TrimEnd(TrimStart(s))

\* str::split('|'): the pieces between the separators, in order.
RECURSIVE SplitFrom(_, _, _)
SplitFrom(s, i, cur) ==
    IF i > Len(s) THEN << cur >>
    ELSE IF s[i] = "|" THEN << cur >> \o SplitFrom(s, i + 1, <<>>)
    ELSE SplitFrom(s, i + 1, Append(cur, s[i]))

split(s) == SplitFrom(s, 1, <<>>)

Ok(b) == [ok |-> TRUE, bits |-> b]
Err(kind, token) == [ok |-> FALSE, err |-> kind, token |-> token]

\* One token of the input.
parser_flag(tok) ==
    LET flag == trim(tok)
    IN  IF flag = <<>> THEN Err("empty_flag", flag)
        ELSE IF Len(flag) >= 2 /\ SubSeq(flag, 1, 2) = << "0", "x" >>
        THEN LET hex == parse_hex(SubSeq(flag, 3, Len(flag)))
             IN  IF hex.some THEN Ok(from_bits_retain(hex.bits))
                 ELSE Err("invalid_hex_flag", flag)
        ELSE LET named == from_name(flag)
             IN  IF named.some THEN Ok(named.bits)
                 ELSE Err("invalid_named_flag", flag)

\* from_str: the union of the tokens' flags; the first token that does not
\* resolve ends the parse with its error.
RECURSIVE ParseTokens(_, _, _)
ParseTokens(toks, i, parsed_flags) ==
    IF i > Len(toks) THEN Ok(parsed_flags)
    ELSE LET parsed_flag == parser_flag(toks[i])
         IN  IF ~parsed_flag.ok THEN parsed_flag
             ELSE ParseTokens(toks, i + 1, insert(parsed_flags, parsed_flag.bits))

OkEmpty == Ok(empty)

parser_from_str(s) ==
    IF trim(s) = <<>> THEN OkEmpty
    ELSE ParseTokens(split(s), 1, empty)

----------------------------------------------------------------------------
\* The caller.  It owns the value `self` and an argument value `other`, calls
\* one method at a time and keeps what the call returned in `ret`.

Call(op, x, name, value, out, ok) ==
    [op |-> op, x |-> x, name |-> name, value |-> value, out |-> out, ok |-> ok]

NoCall == Call("", 0, <<>>, FALSE, 0, FALSE)
NoText == [written |-> FALSE, str |-> <<>>]
NoInput == [given |-> FALSE, origin |-> "", tokens |-> <<>>, style |-> "", str |-> <<>>]
NoParsed == Err("unparsed", <<>>)

InitIdle ==
    /\ ret = NoCall
    /\ iter = NoIter
    /\ yielded = <<>>
    /\ text = NoText
    /\ input = NoInput
    /\ parsed = NoParsed

\* A query or a pure combinator: nothing the caller owns changes.
Returns(r) ==
    /\ ret' = r
    /\ UNCHANGED << table, self, pure, other, iter, yielded, text, input, parsed >>

\* A constructor: the caller binds the new value to `self`.
Constructs(r) ==
    /\ ret' = r
    /\ self' = (IF r.ok THEN r.out ELSE self)
    /\ pure' = (IF r.ok THEN r.out ELSE pure)
    /\ UNCHANGED << table, other, iter, yielded, text, input, parsed >>

\* An in-place method: `self` is replaced by `now`; the second copy is
\* replaced by what the matching pure combinator returns.
Mutates(op, value, now, combined) ==
    /\ ret' = Call(op, 0, <<>>, value, 0, TRUE)
    /\ self' = now
    /\ pure' = combined
    /\ UNCHANGED << table, other, iter, yielded, text, input, parsed >>

Bits_ == Returns(Call("bits", 0, <<>>, FALSE, bits(self), TRUE))

IsEmpty == Returns(Call("is_empty", 0, <<>>, FALSE, 0, is_empty(self)))

IsAll == Returns(Call("is_all", 0, <<>>, FALSE, 0, is_all(self)))

Intersects == Returns(Call("intersects", 0, <<>>, FALSE, 0, intersects(self, other)))

Contains == Returns(Call("contains", 0, <<>>, FALSE, 0, contains(self, other)))

Intersection ==
    Returns(Call("intersection", 0, <<>>, FALSE, intersection(self, other), TRUE))

Union == Returns(Call("union", 0, <<>>, FALSE, union(self, other), TRUE))

Difference == Returns(Call("difference", 0, <<>>, FALSE, difference(self, other), TRUE))

SymmetricDifference ==
    Returns(Call("symmetric_difference", 0, <<>>, FALSE,
                 symmetric_difference(self, other), TRUE))

Complement == Returns(Call("complement", 0, <<>>, FALSE, complement(self), TRUE))

Insert == Mutates("insert", FALSE, insert(self, other), union(pure, other))

Remove == Mutates("remove", FALSE, remove(self, other), difference(pure, other))

Toggle == Mutates("toggle", FALSE, toggle(self, other), symmetric_difference(pure, other))

Set ==
    \E value \in BOOLEAN :
        Mutates("set", value, set(self, other, value),
                IF value THEN union(pure, other) ELSE difference(pure, other))

\* Any two values (from_bits_retain makes every one) under any declaration.
Init ==
    /\ table \in Tables
    /\ self \in Bits
    /\ pure = self
    /\ other \in Bits
    /\ InitIdle

Next ==
    \/ Bits_
    \/ IsEmpty
    \/ IsAll
    \/ Intersects
    \/ Contains
    \/ Intersection
    \/ Union
    \/ Difference
    \/ SymmetricDifference
    \/ Complement
    \/ Insert
    \/ Remove
    \/ Toggle
    \/ Set

Spec == Init /\ [][Next]_vars

----------------------------------------------------------------------------
\* The conversions: the caller makes values from raw bits and from names.

\* Strings handed to from_name: every declared name, and near misses.
NearMisses ==
    { << "A" >>, << "a" >>, << " ", "A" >>, << "A", " " >>,
      << "A", " ", "|", " ", "B" >>, << "0", "x", "1" >>, <<>>,
      << "n", "o", "n", "e" >>, << "F" >>, << "f", "3" >> }

NameInputs == { table[k].name : k \in 1 .. Len(table) } \cup NearMisses

EmptyCall == Call("empty", 0, <<>>, FALSE, empty, TRUE)

Empty == Constructs(EmptyCall)

All == Constructs(Call("all", 0, <<>>, FALSE, all, TRUE))

FromBits ==
    \E x \in Bits :
        LET r == from_bits(x)
        IN  Constructs(Call("from_bits", x, <<>>, FALSE, r.bits, r.some))

FromBitsTruncate ==
    \E x \in Bits :
        Constructs(Call("from_bits_truncate", x, <<>>, FALSE, from_bits_truncate(x), TRUE))

FromBitsRetain ==
    \E x \in Bits :
        Constructs(Call("from_bits_retain", x, <<>>, FALSE, from_bits_retain(x), TRUE))

FromName ==
    \E name \in NameInputs :
        LET r == from_name(name)
        IN  Constructs(Call("from_name", 0, name, FALSE, r.bits, r.some))

InitConv ==
    /\ table \in Tables
    /\ self = 0
    /\ pure = 0
    /\ other = 0
    /\ InitIdle

NextConv ==
    \/ Empty
    \/ All
    \/ FromBits
    \/ FromBitsTruncate
    \/ FromBitsRetain
    \/ FromName

SpecConv == InitConv /\ [][NextConv]_vars

----------------------------------------------------------------------------
\* Values built without from_bits_retain and without parsing: the caller
\* starts from empty(), makes values with the validating constructors,
\* combines them with the set algebra and the in-place methods, and goes on
\* with the results.

Combinators ==
    { "intersection", "union", "difference", "symmetric_difference", "complement" }

\* let a = <combinator result>: the caller goes on with the returned value.
BindResult ==
    /\ ret.op \in Combinators
    /\ self' = ret.out
    /\ pure' = ret.out
    /\ UNCHANGED << table, other, ret, iter, yielded, text, input, parsed >>

\* let b = a: the value is Copy; the caller uses it as the next argument.
BindOther ==
    /\ other' = self
    /\ UNCHANGED << table, self, pure, ret, iter, yielded, text, input, parsed >>

InitClosed ==
    /\ table \in Tables
    /\ self = empty
    /\ pure = empty
    /\ other = empty
    /\ InitIdle

NextClosed ==
    \/ Empty
    \/ All
    \/ FromName
    \/ FromBits
    \/ FromBitsTruncate
    \/ Intersection
    \/ Union
    \/ Difference
    \/ SymmetricDifference
    \/ Complement
    \/ Insert
    \/ Remove
    \/ Toggle
    \/ Set
    \/ BindResult
    \/ BindOther

SpecClosed == InitClosed /\ [][NextClosed]_vars

----------------------------------------------------------------------------
\* Iteration and formatting: the caller iterates the named flags of `self`
\* one next() at a time, formats `self`, and parses the formatted text back.

IterNames ==
    /\ iter' = iter_names(self)
    /\ yielded' = <<>>
    /\ UNCHANGED << table, self, pure, other, ret, text, input, parsed >>

IterNext ==
    /\ iter.live
    /\ LET n == iter_next(iter)
       IN  /\ iter' = n.it
           /\ yielded' = (IF n.some THEN Append(yielded, n.item) ELSE yielded)
    /\ UNCHANGED << table, self, pure, other, ret, text, input, parsed >>

\* impl fmt::Display for Flags
Display ==
    /\ text' = [written |-> TRUE, str |-> parser_to_writer(self)]
    /\ UNCHANGED << table, self, pure, other, ret, iter, yielded, input, parsed >>

\* impl str::FromStr for Flags, on the text Display wrote.
FromStrText ==
    /\ text.written
    /\ input' = [given |-> TRUE, origin |-> "display", tokens |-> <<>>,
                 style |-> "", str |-> text.str]
    /\ parsed' = parser_from_str(text.str)
    /\ UNCHANGED << table, self, pure, other, ret, iter, yielded, text >>

InitText ==
    /\ table \in Tables
    /\ self \in Bits
    /\ pure = self
    /\ other = 0
    /\ InitIdle

NextText ==
    \/ IterNames
    \/ IterNext
    \/ Display
    \/ FromStrText

SpecText == InitText /\ [][NextText]_vars

----------------------------------------------------------------------------
\* Parsing: the caller composes an input of up to MaxTokens tokens, writes it
\* in one of three styles and parses it.

MaxTokens == 2

Tok(kind, k, n, s) == [kind |-> kind, k |-> k, n |-> n, s |-> s]

\* Hexadecimal literals: zero, a declared bit, the widest value, and the
\* first value that does not fit the width.
HexInputs == { 0, 8, 2 ^ Width - 1, 2 ^ Width }

\* Tokens that are neither a declared name nor a hexadecimal literal.
BadTokens == { << "a" >>, << "0", "x" >>, << "0", "x", "g" >>, <<>> }

HexTokens == { Tok("hex", 0, n, <<>>) : n \in HexInputs }

OtherTokens == { Tok("bad", 0, 0, s) : s \in BadTokens }

Tokens ==
    { Tok("name", k, 0, <<>>) : k \in 1 .. Len(table) } \cup HexTokens \cup OtherTokens

Styles == { "canonical", "tight", "padded" }

TokenText(t) ==
    CASE t.kind = "name" -> table[t.k].name
      [] t.kind = "hex" -> << "0", "x" >> \o write_hex(t.n)
      [] OTHER -> t.s

RECURSIVE RenderTokens(_, _, _)
RenderTokens(toks, i, style) ==
    IF i > Len(toks) THEN <<>>
    ELSE LET word == IF style = "padded"
                     THEN << " " >> \o TokenText(toks[i]) \o << "\t" >>
                     ELSE TokenText(toks[i])
             sep == IF i = Len(toks) THEN <<>>
                    ELSE IF style = "canonical" THEN << " ", "|", " " >>
                    ELSE << "|" >>
         IN  word \o sep \o RenderTokens(toks, i + 1, style)

AddToken ==
    /\ ~input.given
    /\ Len(input.tokens) < MaxTokens
    /\ \E t \in Tokens :
           input' = [input EXCEPT !.origin = "caller", !.tokens = Append(@, t)]
    /\ UNCHANGED << table, self, pure, other, ret, iter, yielded, text, parsed >>

\* fn from_str(flags: &str) -> Result<Self, ParseError> { Ok(Self(flags.parse()?)) }
FromStr ==
    /\ ~input.given
    /\ \E style \in Styles :
           LET str == RenderTokens(input.tokens, 1, style)
               r == parser_from_str(str)
           IN  /\ input' = [input EXCEPT !.given = TRUE, !.origin = "caller",
                                         !.style = style, !.str = str]
               /\ parsed' = r
               /\ self' = (IF r.ok THEN r.bits ELSE self)
               /\ pure' = (IF r.ok THEN r.bits ELSE pure)
    /\ UNCHANGED << table, other, ret, iter, yielded, text >>

InitParse ==
    /\ table \in Tables
    /\ self = 0
    /\ pure = 0
    /\ other = 0
    /\ InitIdle

NextParse ==
    \/ AddToken
    \/ FromStr

SpecParse == InitParse /\ [][NextParse]_vars

----------------------------------------------------------------------------
\* Properties.  They speak of single bits, so that they do not repeat the
\* word-level arithmetic of the methods.

BitIndexes == 0 .. (Width - 1)

\* Every bit of a is a bit of b.
SubsetBits(a, b) == \A i \in BitIndexes : Bit(a, i) = 1 => Bit(b, i) = 1

\* Some bit of v belongs to no declared flag.
HasUnknownBits(v) ==
    \E i \in BitIndexes :
        Bit(v, i) = 1 /\ \A k \in 1 .. Len(table) : Bit(table[k].bits, i) = 0

\* Inputs and results the properties name.
BlankInput == << Tok("bad", 0, 0, <<>>) >>

InputA_0x8 == << Tok("name", 1, 0, <<>>), Tok("hex", 0, 8, <<>>) >>

Ok0 == Ok(0)

Ok9 == Ok(9)

InPlace == { "insert", "remove", "toggle", "set" }

\* C1: from_bits(x) returns a present value exactly when
\* from_bits_truncate(x).bits() == x, absent exactly when it differs, and a
\* present value has bits() == x.
C1_FromBitsExact ==
    ret.op = "from_bits" =>
        /\ ret.ok <=> (bits(from_bits_truncate(ret.x)) = ret.x)
        /\ ret.ok => (ret.out = ret.x /\ bits(self) = ret.x)

\* C1 witness: from_bits rejected an x all of whose bits lie within all()
\* (x overlaps a multi-bit flag in part).
C1_Witness ==
    /\ ret.op = "from_bits"
    /\ ~ret.ok
    /\ ret.x # 0
    /\ ~HasUnknownBits(ret.x)

\* C2: from_bits_truncate(x).bits() is the union of the bits of exactly those
\* declared flags whose bits are all set in x; every other bit of x is
\* dropped.  With the single flag F3 = 0b011, from_bits(0b001) is absent and
\* from_bits_truncate(0b001) is empty.
C2_TruncateAtomic ==
    /\ ret.op = "from_bits_truncate" =>
           \A i \in BitIndexes :
               Bit(ret.out, i) = 1 <=>
                   \E k \in 1 .. Len(table) :
                       SubsetBits(table[k].bits, ret.x) /\ Bit(table[k].bits, i) = 1
    /\ (table = FlagsF3 /\ ret.op = "from_bits" /\ ret.x = 1) => ~ret.ok
    /\ (table = FlagsF3 /\ ret.op = "from_bits_truncate" /\ ret.x = 1) =>
           (ret.out = 0 /\ is_empty(self))

\* C2 witness: from_bits_truncate(0b001) was called with only F3 declared.
C2_Witness ==
    /\ table = FlagsF3
    /\ ret.op = "from_bits_truncate"
    /\ ret.x = 1
    /\ is_empty(self)

C6_ContainsSubset ==
    /\ ret.op = "contains" => (ret.ok <=> SubsetBits(other, self))
    /\ \A k \in 1 .. Len(table) :
           table[k].bits = 0 =>
               /\ contains(self, table[k].bits)
               /\ contains(empty, table[k].bits)
               /\ is_empty(table[k].bits)

\* C6 witness: empty().contains(NONE) returned true.
C6_Witness ==
    /\ table = FlagsZero
    /\ ret.op = "contains"
    /\ self = empty
    /\ other = FlagsZero[1].bits
    /\ ret.ok

C10_MutatorsAgree ==
    [][ /\ ret'.op = "insert" => self' = bits(union(self, other))
        /\ ret'.op = "remove" =>
               /\ self' = bits(difference(self, other))
               /\ \A i \in BitIndexes :
                      Bit(self', i) = 1 <=> (Bit(self, i) = 1 /\ Bit(other, i) = 0)
        /\ ret'.op = "toggle" =>
               /\ self' = bits(symmetric_difference(self, other))
               /\ \A i \in BitIndexes :
                      Bit(self', i) = 1 <=> (Bit(self, i) # Bit(other, i))
        /\ (ret'.op = "set" /\ ret'.value) => self' = insert(self, other)
        /\ (ret'.op = "set" /\ ~ret'.value) => self' = remove(self, other)
        /\ ret'.op \in InPlace =>
               (other' = other /\ pure = self /\ pure' = self')
      ]_vars

\* C10 witness: set(other, false) removed some but not all bits of self.
C10_Witness ==
    /\ ret.op = "set"
    /\ ~ret.value
    /\ other # 0
    /\ self # 0
    /\ pure = self

\* C4: parsing the string produced by formatting v succeeds and yields a
\* value whose bits() equal v.bits(), for every v and every declaration.
C4_RoundTrip ==
    (input.given /\ input.origin = "display") =>
        /\ input.str = parser_to_writer(self)
        /\ parsed.ok
        /\ parsed.bits = bits(self)

\* C4 witness: a value that overlaps the multi-bit flag F3 only in part was
\* formatted and parsed back.
C4_Witness ==
    /\ table = FlagsF3
    /\ self = 1
    /\ input.given
    /\ input.origin = "display"
    /\ parsed.ok

\* The place of a yielded item in the declaration.
IndexOf(item) == CHOOSE k \in 1 .. Len(table) : table[k] = item

\* The declared flags that are non-zero and a bitwise subset of v.
FlagsWithin(v) ==
    { k \in 1 .. Len(table) : table[k].bits # 0 /\ SubsetBits(table[k].bits, v) }

\* C5: named-flag iteration yields declared (name, flag) pairs in declaration
\* order, each at most once, and only flags whose bits are non-zero and a
\* bitwise subset of the value's bits; with A = 0b001, B = 0b010, C = 0b100,
\* iterating A|B|C yields exactly [A, B, C] and iterating a value yields as
\* many items as it has such flags (all() yields 3, B yields 1).
C5_IterationOrder ==
    /\ \A j \in 1 .. Len(yielded) :
           /\ \E k \in 1 .. Len(table) : table[k] = yielded[j]
           /\ yielded[j].bits # 0
           /\ SubsetBits(yielded[j].bits, self)
    /\ \A i \in 1 .. Len(yielded) :
           \A j \in 1 .. Len(yielded) :
               i < j => IndexOf(yielded[i]) < IndexOf(yielded[j])
    /\ (table = FlagsABC /\ iter.done) =>
           /\ Len(yielded) = Cardinality(FlagsWithin(self))
           /\ self = 7 => yielded = FlagsABC
           /\ self = bits(all) => Len(yielded) = 3
           /\ self = FlagsABC[2].bits => Len(yielded) = 1

\* C5 witness: the iteration of A|B|C under { A, B, C } has finished with
\* three items.
C5_Witness ==
    /\ table = FlagsABC
    /\ self = 7
    /\ iter.done
    /\ Len(yielded) = 3

\* The pieces joined by " | ".
RECURSIVE JoinBar(_)
JoinBar(pieces) ==
    IF pieces = <<>> THEN <<>>
    ELSE IF Len(pieces) = 1 THEN pieces[1]
    ELSE pieces[1] \o << " ", "|", " " >> \o JoinBar(Tail(pieces))

\* The number with exactly the bits i >= from for which Keep(i) holds.
RECURSIVE BitsWhere(_, _)
BitsWhere(Keep(_), from) ==
    IF from >= Width THEN 0
    ELSE (IF Keep(from) THEN 2 ^ from ELSE 0) + BitsWhere(Keep, from + 1)

\* The names of the yielded flags, then `rest` as a literal if it is not 0.
NamesThenHex(rest) ==
    LET names == [j \in 1 .. Len(yielded) |-> yielded[j].name]
    IN  JoinBar(IF rest # 0
                THEN Append(names, << "0", "x" >> \o write_hex(rest))
                ELSE names)

\* The bits of self that no yielded flag has.
NotYielded ==
    LET Keep(i) ==
            Bit(self, i) = 1 /\ \A j \in 1 .. Len(yielded) : Bit(yielded[j].bits, i) = 0
    IN  BitsWhere(Keep, 0)

\* The bits of self that no declared flag has.
NotDeclared ==
    LET Keep(i) ==
            Bit(self, i) = 1 /\ \A k \in 1 .. Len(table) : Bit(table[k].bits, i) = 0
    IN  BitsWhere(Keep, 0)

\* C8 as stated: formatting writes the names of the flags the iteration
\* yields, joined by " | ", and appends as one 0x literal exactly the bits
\* of the value that no declared flag covers.
C8_AsStated ==
    (text.written /\ iter.done) => text.str = NamesThenHex(NotDeclared)

\* C8, amended: formatting writes the names of the flags the iteration
\* yields, in declaration order, joined by " | ", and appends as one trailing
\* 0x literal exactly the bits of the value that no yielded flag covers
\* (unknown bits, and bits that match a multi-bit flag only in part); the
\* empty value formats as the empty string; with A, B, C declared, A|C
\* formats as "A | C" and from_bits_retain(0b1000) as "0x8".
C8_Format ==
    /\ (text.written /\ iter.done) => text.str = NamesThenHex(NotYielded)
    /\ (text.written /\ self = 0) => text.str = <<>>
    /\ (text.written /\ table = FlagsABC /\ self = 5) =>
           text.str = << "A", " ", "|", " ", "C" >>
    /\ (text.written /\ table = FlagsABC /\ self = 8) =>
           text.str = << "0", "x", "8" >>

\* C8 witness: a value with two named flags and an unknown bit was formatted.
C8_Witness ==
    /\ table = FlagsABC
    /\ self = 13
    /\ iter.done
    /\ text.written
    /\ text.str = << "A", " ", "|", " ", "C", " ", "|", " ", "0", "x", "8" >>

\* What a composed token stands for.
TokenResolves(t) ==
    \/ t.kind = "name"
    \/ t.kind = "hex" /\ t.n <= 2 ^ Width - 1

TokenBits(t) == IF t.kind = "name" THEN table[t.k].bits ELSE t.n

\* C9: parsing splits the input on '|', trims each token and resolves it as
\* a declared name or a 0x literal of the width; if every token resolves,
\* the result is the union of the contributions, hexadecimal bits kept
\* verbatim ("A | 0x8" gives 0b1001); if any token does not resolve, or a
\* literal overflows the width, the parse fails with an error and no value.
C9_Parse ==
    (input.given /\ input.origin = "caller") =>
        LET toks == input.tokens
            blank == toks = <<>> \/ toks = BlankInput
        IN  /\ blank => parsed = Ok0
            /\ (~blank /\ \A j \in 1 .. Len(toks) : TokenResolves(toks[j])) =>
                   /\ parsed.ok
                   /\ self = parsed.bits
                   /\ \A i \in BitIndexes :
                          Bit(parsed.bits, i) = 1 <=>
                              \E j \in 1 .. Len(toks) : Bit(TokenBits(toks[j]), i) = 1
            /\ (~blank /\ \E j \in 1 .. Len(toks) : ~TokenResolves(toks[j])) =>
                   /\ ~parsed.ok
                   /\ "bits" \notin DOMAIN parsed
                   /\ self = 0
            /\ (table = FlagsABC /\ toks = InputA_0x8) => parsed = Ok9

\* C9 witness: "A | 0x8" was parsed under { A, B, C }.
C9_Witness ==
    /\ table = FlagsABC
    /\ input.given
    /\ input.str = << "A", " ", "|", " ", "0", "x", "8" >>
    /\ parsed = Ok9

\* C11: the four binary combinators are plain bitwise operations on the raw
\* bits, with no truncation: union = a|b, intersection = a&b, difference =
\* a & ~b, symmetric_difference = a^b, for all a, b; so unknown bits survive
\* them, union and intersection are commutative, and a.difference(a) is empty.
C11_CombinatorsBitwise ==
    /\ ret.op = "union" =>
           \A i \in BitIndexes :
               Bit(ret.out, i) = 1 <=> (Bit(self, i) = 1 \/ Bit(other, i) = 1)
    /\ ret.op = "intersection" =>
           \A i \in BitIndexes :
               Bit(ret.out, i) = 1 <=> (Bit(self, i) = 1 /\ Bit(other, i) = 1)
    /\ ret.op = "difference" =>
           \A i \in BitIndexes :
               Bit(ret.out, i) = 1 <=> (Bit(self, i) = 1 /\ Bit(other, i) = 0)
    /\ ret.op = "symmetric_difference" =>
           \A i \in BitIndexes :
               Bit(ret.out, i) = 1 <=> (Bit(self, i) # Bit(other, i))
    /\ ret.op = "union" => ret.out = union(other, self)
    /\ ret.op = "intersection" => ret.out = intersection(other, self)
    /\ ret.op = "difference" => (self = other => is_empty(ret.out))
    /\ is_empty(difference(self, self))

\* C11 witness: an intersection kept an unknown bit that both values hold.
C11_Witness ==
    /\ ret.op = "intersection"
    /\ HasUnknownBits(self)
    /\ HasUnknownBits(other)
    /\ HasUnknownBits(ret.out)

WholeFlags(x) ==
    \A i \in BitIndexes :
        Bit(x, i) = 1 =>
            \E k \in 1 .. Len(table) :
                SubsetBits(table[k].bits, x) /\ Bit(table[k].bits, i) = 1

\* C13 as stated: for every value a without a bit outside all().bits(),
\* from_bits_truncate(a.bits()) equals from_bits_retain(a.bits()); and
\* from_bits_retain(x).bits() == x for every x.
C13_AsStated ==
    /\ (ret.op = "from_bits_truncate" /\ ~HasUnknownBits(ret.x)) =>
           ret.out = from_bits_retain(ret.x)
    /\ ret.op = "from_bits_retain" => bits(ret.out) = ret.x

\* C13, amended: for every value a whose bits are the union of declared
\* flags it holds whole (no bit outside all().bits(), and no bit that is
\* only a part of a multi-bit flag), from_bits_truncate(a.bits()) equals
\* from_bits_retain(a.bits()); for every other a they differ; and
\* from_bits_retain(x).bits() == x for every x.
C13_TruncateEqualsRetain ==
    /\ ret.op = "from_bits_truncate" =>
           (WholeFlags(ret.x) <=> ret.out = from_bits_retain(ret.x))
    /\ ret.op = "from_bits_retain" =>
           /\ bits(ret.out) = ret.x
           /\ bits(self) = ret.x
           /\ WholeFlags(ret.x) <=> from_bits_truncate(ret.x) = ret.out

\* C13 witness: from_bits_truncate was given the whole multi-bit flag F3 and
\* kept it.
C13_Witness ==
    /\ table = FlagsF3
    /\ ret.op = "from_bits_truncate"
    /\ ret.x = 3
    /\ ret.out = 3

\* `name` is the declared name of flag k, character for character.
SameText(name, k) ==
    /\ Len(name) = Len(table[k].name)
    /\ \A c \in 1 .. Len(name) : name[c] = table[k].name[c]

\* Strings that differ from a declared name in case, by surrounding
\* whitespace, or are a literal or a list of names.
NotNames ==
    { << "a" >>, << " ", "A" >>, << "A", " " >>, << "A", " ", "|", " ", "B" >>,
      << "0", "x", "1" >>, << "n", "o", "n", "e" >>, << "f", "3" >>, <<>> }

\* C14: from_name(s) returns a present value with exactly the named flag's
\* bits when s equals a declared flag's name character for character, and
\* absent for every other string: different case, surrounding whitespace, a
\* hexadecimal literal, operator grammar such as "A | B".
C14_FromNameExact ==
    ret.op = "from_name" =>
        /\ ret.ok <=> \E k \in 1 .. Len(table) : SameText(ret.name, k)
        /\ ret.ok =>
               \A k \in 1 .. Len(table) :
                   SameText(ret.name, k) =>
                       (ret.out = table[k].bits /\ bits(self) = table[k].bits)
        /\ ret.name \in NotNames => ~ret.ok

\* C14 witness: from_name("A | B") returned absent with A and B declared.
C14_Witness ==
    /\ table = FlagsABC
    /\ ret.op = "from_name"
    /\ ret.name = << "A", " ", "|", " ", "B" >>
    /\ ~ret.ok

\* Flag k was yielded.
YieldedAt(k) == \E j \in 1 .. Len(yielded) : yielded[j] = table[k]

\* The declared flags whose bits are a non-zero proper part of flag k's.
Components(k) ==
    { j \in 1 .. Len(table) :
        /\ table[j].bits # 0
        /\ table[j].bits # table[k].bits
        /\ SubsetBits(table[j].bits, table[k].bits) }

\* Flag k's bits are the union of the bits of smaller declared flags.
Composed(k) ==
    /\ Components(k) # {}
    /\ \A i \in BitIndexes :
           Bit(table[k].bits, i) = 1 =>
               \E j \in Components(k) : Bit(table[j].bits, i) = 1

\* No flag yielded after the first lies wholly within the bits of the flags
\* yielded before it.
NoneWithinConsumed ==
    \A j \in 1 .. Len(yielded) :
        \E i \in BitIndexes :
            /\ Bit(yielded[j].bits, i) = 1
            /\ \A h \in 1 .. j - 1 : Bit(yielded[h].bits, i) = 0

C16_Closure ==
    /\ ~HasUnknownBits(self)
    /\ ~HasUnknownBits(other)
    /\ ~HasUnknownBits(pure)
    /\ ret.ok => ~HasUnknownBits(ret.out)
    /\ SubsetBits(bits(self), bits(all))
    /\ SubsetBits(bits(other), bits(all))

\* C16 witness: the complement of a non-empty value that is not all() was
\* taken, with a non-empty argument bound, under a declaration that leaves a
\* bit of the integer undeclared.
C16_Witness ==
    /\ table = FlagsABC
    /\ ret.op = "complement"
    /\ self = 1
    /\ other # 0
    /\ ret.out = 6

\* The bits of the flags yielded so far.
YieldedBits ==
    LET Keep(i) == \E j \in 1 .. Len(yielded) : Bit(yielded[j].bits, i) = 1
    IN  BitsWhere(Keep, 0)

\* What holds of an iterator in every state: it is within the table, has
\* yielded no more flags than it has examined, holds the value it was made
\* from, and its remaining bits are the bits of that value that no yielded
\* flag has.
IterAccounts ==
    iter.live =>
        /\ iter.idx <= Len(table)
        /\ Len(yielded) <= iter.idx
        /\ iter.done => iter.idx = Len(table)
        /\ iter.source = bits(self)
        /\ BitOr(YieldedBits, iter.remaining) = bits(self)
        /\ BitAnd(YieldedBits, iter.remaining) = 0
        /\ (text.written /\ iter.done) =>
               /\ text.str = NamesThenHex(iter.remaining)
               /\ parsed.ok =>
                      parsed.bits = BitOr(YieldedBits, iter.remaining)

\* What holds of every step: the value iterated is not changed, and a call
\* of next() that is not idle moves forward in the table or ends the
\* iteration.
IterAdvances ==
    /\ self' = self
    /\ (iter.live /\ iter' # iter /\ ~(iter'.idx = 0 /\ ~iter'.done)) =>
           /\ iter'.source = iter.source
           /\ iter'.idx > iter.idx \/ (iter'.done /\ ~iter.done)
           /\ iter'.idx <= Len(table)
           /\ Len(yielded') <= Len(yielded) + 1
           /\ SubsetBits(iter'.remaining, iter.remaining)

\* C17: named-flag iteration ends after at most one pass over the
\* declaration table, never changes the source value, and at every step the
\* union of the bits of the flags yielded so far with the iterator's
\* remaining bits is the source value's bits; the names the formatter writes
\* and its trailing hexadecimal remainder account for every bit of the value
\* and for no other bit.
C17_IterationInvariant == [](IterAccounts) /\ [][IterAdvances]_vars

\* C17 witness: under overlapping flags X = 0b011 and Y = 0b110 the iteration
\* of 0b1111 has ended with both yielded and the bit 0b1000 remaining, and
\* the value has been formatted.
C17_Witness ==
    /\ table = FlagsOverlap
    /\ self = 15
    /\ iter.done
    /\ Len(yielded) = 2
    /\ iter.remaining = 8
    /\ text.written

====
